---- MODULE Spec2Model ----
(***************************************************************************)
(* Admission-control core of the auto-ban bot (src/cogs/moderation.py):    *)
(* the whitelist and settings tables, the log-channel scalar, the duration *)
(* codec, the administrative commands and the on_member_join handler with  *)
(* its suspension points.                                                  *)
(*                                                                         *)
(* One on_member_join coroutine is in flight at a time, interleaved with   *)
(* the commands at each of its awaits.  Handlers share only the tables and *)
(* the attributes of the cog; a handler reads them (and writes a missing   *)
(* or day-granularity settings row) without suspension, so a second        *)
(* handler in flight would see nothing that a command or an earlier        *)
(* handler cannot produce.                                                 *)
(*                                                                         *)
(* The commands are followed in two specifications.  In Spec each command   *)
(* is one step, taken between the steps of the on_member_join coroutine.   *)
(* In StoreSpec, which has no on_member_join, each command is a coroutine  *)
(* of its own (handlers) that is suspended at its closing ctx.send, and    *)
(* what the commands have written is recorded (history); Spec leaves       *)
(* handlers and history as they are at the start.  PolicySpec is the part *)
(* of StoreSpec on the settings table, started on more kinds of rows, and  *)
(* CodecSpec is one call of the duration codec (codec).                    *)
(*                                                                         *)
(* Python's None is the empty sequence <<>> and a present value x is the   *)
(* one-element sequence <<x>>, so that a nullable column or attribute can  *)
(* hold any integer, negative ones included.                               *)
(***************************************************************************)
EXTENDS Integers, Sequences, FiniteSets, TLC

----------------------------------------------------------------------------
(* Bounds of the model *)

\* number of administrative commands and restarts in one behaviour
MaxCommands == 1

\* number of command dispatches and restarts in one behaviour of the
\* command handlers
MaxInvocations == 3

\* length of the texts given to _parse_duration
MaxTextLen == 3

\* largest count of one unit in the seconds given to _humanize_duration
MaxCount == 2

----------------------------------------------------------------------------
(* The world outside the program *)

Guilds == {1, 2}

Users == {1, 2}

\* channel 1 is a text channel of guild 1 and channel 2 a text channel of
\* guild 2; any other id (3, in LOG_CHANNEL_ID) is no text channel of a guild
TextChannelIds == {1, 2}

\* guild.get_channel(id), followed by isinstance(channel, discord.TextChannel)
IsTextChannelOf(guild, channel_id) ==
  channel_id \in TextChannelIds /\ channel_id = guild

\* account ages in seconds: 0, 7 d, 15 d, 30 d
Ages == {0, 604800, 1296000, 2592000}

\* outcomes of an awaited discord call; discord.Forbidden is a subclass of
\* discord.HTTPException, "HTTPException" stands for the other subclasses
ApiResults == {"ok", "Forbidden", "HTTPException"}

None == <<>>

Some(x) == <<x>>

IsNone(o) == o = <<>>

Get(o) == o[1]

\* Python truthiness of an int | None
Truthy(o) == o # <<>> /\ o[1] # 0

----------------------------------------------------------------------------
(* Duration codec.  A str is a sequence of one-character strings. *)

DigitChars == {"0", "1", "2", "3", "4", "5", "6", "7", "8", "9"}

LowerAlpha == {"s", "m", "h", "d", "w", "x", "y", "z"}

UpperAlpha == {"S", "M", "H", "D", "W", "X", "Y", "Z"}

Whitespace == {" "}

\* characters for which str.isdigit() is true and that int() rejects:
\* SUPERSCRIPT TWO
SuperscriptDigits == {"²"}

DigitVal(c) ==
  CASE c = "0" -> 0 [] c = "1" -> 1 [] c = "2" -> 2 [] c = "3" -> 3
    [] c = "4" -> 4 [] c = "5" -> 5 [] c = "6" -> 6 [] c = "7" -> 7
    [] c = "8" -> 8 [] c = "9" -> 9

\* str.lower() on one character
LowerChar(c) ==
  CASE c = "S" -> "s" [] c = "M" -> "m" [] c = "H" -> "h" [] c = "D" -> "d"
    [] c = "W" -> "w" [] c = "X" -> "x" [] c = "Y" -> "y" [] c = "Z" -> "z"
    [] OTHER -> c

Lower(s) == [i \in 1..Len(s) |-> LowerChar(s[i])]

RECURSIVE LStrip(_)
LStrip(s) ==
  IF s # <<>> /\ Head(s) \in Whitespace THEN LStrip(Tail(s)) ELSE s

RECURSIVE RStrip(_)
RStrip(s) ==
  IF s # <<>> /\ s[Len(s)] \in Whitespace
  THEN RStrip(SubSeq(s, 1, Len(s) - 1))
  ELSE s

\* str.strip()
Strip(s) == RStrip(LStrip(s))

\* str.isalpha() of one character
IsAlpha(c) == c \in LowerAlpha \cup UpperAlpha

\* str.isdigit(): false for the empty string
IsDigit(s) ==
  s # <<>> /\ \A i \in 1..Len(s) : s[i] \in DigitChars \cup SuperscriptDigits

\* the texts int() converts, among those of str.isdigit()
IsDecimal(s) == \A i \in 1..Len(s) : s[i] \in DigitChars

\* int(number) raising ValueError: neither None nor a present value
ValueError == <<"ValueError", "invalid literal for int() with base 10">>

\* int() of a string of decimal digits
RECURSIVE IntOf(_)
IntOf(s) ==
  IF s = <<>> THEN 0
  ELSE 10 * IntOf(SubSeq(s, 1, Len(s) - 1)) + DigitVal(s[Len(s)])

UnitMultiplier(unit) ==
  CASE unit = "s" -> Some(1)
    [] unit = "m" -> Some(60)
    [] unit = "h" -> Some(3600)
    [] unit = "d" -> Some(86400)
    [] unit = "w" -> Some(604800)
    [] OTHER -> None

\* _parse_duration(raw) -> int | None, or ValueError raised by int()
_parse_duration(raw) ==
  LET value == Lower(Strip(raw)) IN
  IF value = <<>> THEN None
  ELSE
    LET unit == value[Len(value)]
        hasunit == IsAlpha(unit)
        number == IF hasunit THEN Strip(SubSeq(value, 1, Len(value) - 1))
                  ELSE value
        multiplier == IF hasunit THEN UnitMultiplier(unit) ELSE Some(86400)
    IN IF IsNone(multiplier) THEN None
       ELSE IF ~IsDigit(number) THEN None
       ELSE IF ~IsDecimal(number) THEN ValueError
       ELSE LET seconds == IntOf(number) * Get(multiplier) IN
            IF seconds < 0 THEN None ELSE Some(seconds)

\* the duration texts an operator types: " 1W", "30", "-5d"
Durations == {<<" ", "1", "W">>, <<"3", "0">>, <<"-", "5", "d">>}

\* the digit of str() for 0..9
DigitChar(n) == CHOOSE c \in DigitChars : DigitVal(c) = n

\* str(value) of an int >= 0, as in f"{value}{unit}"
RECURSIVE StrOf(_)
StrOf(n) ==
  IF n < 10 THEN <<DigitChar(n)>>
  ELSE StrOf(n \div 10) \o <<DigitChar(n % 10)>>

\* the (unit, size) pairs _humanize_duration goes through, in its order
UnitSizes ==
  << [unit |-> "w", size |-> 604800], [unit |-> "d", size |-> 86400],
     [unit |-> "h", size |-> 3600], [unit |-> "m", size |-> 60],
     [unit |-> "s", size |-> 1] >>

\* the loop of _humanize_duration that goes on to the last unit and never
\* leaves at two parts
RECURSIVE HumanizeParts_NoBreak(_, _, _)
HumanizeParts_NoBreak(i, remaining, parts) ==
  IF i > Len(UnitSizes) THEN parts
  ELSE IF remaining >= UnitSizes[i].size
  THEN HumanizeParts_NoBreak(i + 1, remaining % UnitSizes[i].size,
                             Append(parts, StrOf(remaining \div UnitSizes[i].size)
                                           \o <<UnitSizes[i].unit>>))
  ELSE HumanizeParts_NoBreak(i + 1, remaining, parts)

\* the loop of _humanize_duration from the i-th unit on: parts so far and
\* what remains of the seconds; it leaves at two parts
RECURSIVE HumanizeParts(_, _, _)
HumanizeParts(i, remaining, parts) ==
  IF i > Len(UnitSizes) THEN parts
  ELSE IF remaining >= UnitSizes[i].size
  THEN LET value == remaining \div UnitSizes[i].size
           appended == Append(parts, StrOf(value) \o <<UnitSizes[i].unit>>)
       IN IF Len(appended) >= 2 THEN appended
          ELSE HumanizeParts(i + 1, remaining % UnitSizes[i].size, appended)
  ELSE HumanizeParts(i + 1, remaining, parts)

\* " ".join(parts)
RECURSIVE JoinParts(_)
JoinParts(parts) ==
  IF parts = <<>> THEN <<>>
  ELSE IF Len(parts) = 1 THEN parts[1]
  ELSE parts[1] \o <<" ">> \o JoinParts(Tail(parts))

\* _humanize_duration(seconds) -> str
_humanize_duration(seconds) ==
  IF seconds <= 0 THEN <<"0", "s">>
  ELSE JoinParts(HumanizeParts(1, seconds, <<>>))

----------------------------------------------------------------------------
(* Environment and configuration file *)

\* os.getenv(name, "").strip(): unset or blank, text that int() rejects, or
\* the text of an integer
EnvUnset == [kind |-> "unset", val |-> 0]

EnvGarbage == [kind |-> "garbage", val |-> 0]

EnvInt(n) == [kind |-> "int", val |-> n]

\* _int_env(name, default)
_int_env(raw, default) == IF raw.kind = "int" THEN raw.val ELSE default

\* _log_channel_id() -> int | None
_log_channel_id(raw) == IF raw.kind = "int" THEN Some(raw.val) ELSE None

\* values of BAN_UNDER_DAYS, KICK_UNDER_DAYS and LOG_CHANNEL_ID at start-up
BanDaysEnv == {EnvUnset, EnvInt(1), EnvInt(-1)}

KickDaysEnv == {EnvUnset, EnvGarbage}

LogChannelEnv == {EnvUnset, EnvInt(3)}

\* _load_log_channel_id(path): the file holds an int (Some) or is missing or
\* unreadable (None)
_load_log_channel_id(file) == file

\* _save_log_channel_id(path, channel_id): the file afterwards; a write that
\* fails (OSError) leaves the file as it was or, truncated, unreadable
_save_log_channel_id(file, channel_id, save) ==
  CASE save = "ok" -> Some(channel_id)
    [] save = "not_opened" -> file
    [] save = "truncated" -> None

\* outcomes of the write of data/log_channel.json
SaveResults == {"ok", "not_opened", "truncated"}

\* Python's `a or b` on int | None
Or(a, b) == IF Truthy(a) THEN a ELSE b

----------------------------------------------------------------------------
(* Settings table: guild_id -> row, a row has four nullable columns *)

Row(bs, ks, bd, kd) ==
  [ban_under_seconds |-> bs, kick_under_seconds |-> ks,
   ban_under_days |-> bd, kick_under_days |-> kd]

\* a row written before the second-granularity columns existed (3 d, 15 d)
LegacyRow == Row(None, None, Some(3), Some(15))

\* a row written when the table had the column ban_under_seconds and not
\* yet the column kick_under_seconds, which _init_settings_db then adds:
\* a ban threshold of 1 h (1 d in days), a kick threshold of 15 d
PartialRow == Row(Some(3600), None, Some(1), Some(15))

\* the INSERT of line 147 with its values in the order of its columns'
\* declaration: the day values land in the second-granularity columns
_settings_get_InsertSwapped(db, guild_id, default_ban_seconds, default_kick_seconds) ==
  LET row == db[guild_id] IN
  IF row # None /\ Get(row).ban_under_seconds # None
                /\ Get(row).kick_under_seconds # None
  THEN [ret |-> <<Get(Get(row).ban_under_seconds),
                 Get(Get(row).kick_under_seconds)>>,
        db |-> db]
  ELSE IF row # None /\ Get(row).ban_under_days # None
                     /\ Get(row).kick_under_days # None
  THEN LET ban_seconds == Get(Get(row).ban_under_days) * 86400
           kick_seconds == Get(Get(row).kick_under_days) * 86400
       IN [ret |-> <<ban_seconds, kick_seconds>>,
           db |-> [db EXCEPT ![guild_id] =
                     Some([Get(row) EXCEPT
                             !.ban_under_seconds = Some(ban_seconds),
                             !.kick_under_seconds = Some(kick_seconds)])]]
  ELSE [ret |-> <<default_ban_seconds, default_kick_seconds>>,
        db |-> IF row = None
               THEN [db EXCEPT ![guild_id] =
                       Some(Row(Some(default_ban_seconds \div 86400),
                                Some(default_kick_seconds \div 86400),
                                Some(default_ban_seconds),
                                Some(default_kick_seconds)))]
               ELSE db]

\* the upgrade of line 137 without its return: the UPDATE is made, the
\* INSERT OR IGNORE of line 147 is ignored and the defaults are returned
_settings_get_NoReturn(db, guild_id, default_ban_seconds, default_kick_seconds) ==
  LET row == db[guild_id] IN
  IF row # None /\ Get(row).ban_under_seconds # None
                /\ Get(row).kick_under_seconds # None
  THEN [ret |-> <<Get(Get(row).ban_under_seconds),
                 Get(Get(row).kick_under_seconds)>>,
        db |-> db]
  ELSE IF row # None /\ Get(row).ban_under_days # None
                     /\ Get(row).kick_under_days # None
  THEN LET ban_seconds == Get(Get(row).ban_under_days) * 86400
           kick_seconds == Get(Get(row).kick_under_days) * 86400
       IN [ret |-> <<default_ban_seconds, default_kick_seconds>>,
           db |-> [db EXCEPT ![guild_id] =
                     Some([Get(row) EXCEPT
                             !.ban_under_seconds = Some(ban_seconds),
                             !.kick_under_seconds = Some(kick_seconds)])]]
  ELSE [ret |-> <<default_ban_seconds, default_kick_seconds>>,
        db |-> IF row = None
               THEN [db EXCEPT ![guild_id] =
                       Some(Row(Some(default_ban_seconds),
                                Some(default_kick_seconds),
                                Some(default_ban_seconds \div 86400),
                                Some(default_kick_seconds \div 86400)))]
               ELSE db]

\* the UPDATE of line 140 given the day values instead of the seconds
_settings_get_UpgradeUnscaled(db, guild_id, default_ban_seconds, default_kick_seconds) ==
  LET row == db[guild_id] IN
  IF row # None /\ Get(row).ban_under_seconds # None
                /\ Get(row).kick_under_seconds # None
  THEN [ret |-> <<Get(Get(row).ban_under_seconds),
                 Get(Get(row).kick_under_seconds)>>,
        db |-> db]
  ELSE IF row # None /\ Get(row).ban_under_days # None
                     /\ Get(row).kick_under_days # None
  THEN LET ban_seconds == Get(Get(row).ban_under_days) * 86400
           kick_seconds == Get(Get(row).kick_under_days) * 86400
       IN [ret |-> <<ban_seconds, kick_seconds>>,
           db |-> [db EXCEPT ![guild_id] =
                     Some([Get(row) EXCEPT
                             !.ban_under_seconds = Get(row).ban_under_days,
                             !.kick_under_seconds = Get(row).kick_under_days])]]
  ELSE [ret |-> <<default_ban_seconds, default_kick_seconds>>,
        db |-> IF row = None
               THEN [db EXCEPT ![guild_id] =
                       Some(Row(Some(default_ban_seconds),
                                Some(default_kick_seconds),
                                Some(default_ban_seconds \div 86400),
                                Some(default_kick_seconds \div 86400)))]
               ELSE db]

\* _settings_get: the pair returned and the table afterwards
_settings_get(db, guild_id, default_ban_seconds, default_kick_seconds) ==
  LET row == db[guild_id] IN
  IF row # None /\ Get(row).ban_under_seconds # None
                /\ Get(row).kick_under_seconds # None
  THEN [ret |-> <<Get(Get(row).ban_under_seconds),
                 Get(Get(row).kick_under_seconds)>>,
        db |-> db]
  ELSE IF row # None /\ Get(row).ban_under_days # None
                     /\ Get(row).kick_under_days # None
  THEN LET ban_seconds == Get(Get(row).ban_under_days) * 86400
           kick_seconds == Get(Get(row).kick_under_days) * 86400
       IN [ret |-> <<ban_seconds, kick_seconds>>,
           db |-> [db EXCEPT ![guild_id] =
                     Some([Get(row) EXCEPT
                             !.ban_under_seconds = Some(ban_seconds),
                             !.kick_under_seconds = Some(kick_seconds)])]]
  ELSE [ret |-> <<default_ban_seconds, default_kick_seconds>>,
        \* INSERT OR IGNORE: only when the guild has no row
        db |-> IF row = None
               THEN [db EXCEPT ![guild_id] =
                       Some(Row(Some(default_ban_seconds),
                                Some(default_kick_seconds),
                                Some(default_ban_seconds \div 86400),
                                Some(default_kick_seconds \div 86400)))]
               ELSE db]

\* _settings_set without the UPDATE of line 173: INSERT OR IGNORE alone
_settings_set_InsertOnly(db, guild_id, ban_seconds, kick_seconds) ==
  LET ban_days == (ban_seconds + 86399) \div 86400
      kick_days == (kick_seconds + 86399) \div 86400
  IN IF db[guild_id] # None THEN db
     ELSE [db EXCEPT ![guild_id] =
             Some(Row(Some(ban_seconds), Some(kick_seconds),
                      Some(ban_days), Some(kick_days)))]

\* _settings_set writing whole days to the second-granularity columns
_settings_set_WholeDays(db, guild_id, ban_seconds, kick_seconds) ==
  LET ban_days == (ban_seconds + 86399) \div 86400
      kick_days == (kick_seconds + 86399) \div 86400
  IN [db EXCEPT ![guild_id] =
        Some(Row(Some(ban_days * 86400), Some(kick_days * 86400),
                 Some(ban_days), Some(kick_days)))]

\* _settings_set: INSERT OR IGNORE, then UPDATE of all four columns
_settings_set(db, guild_id, ban_seconds, kick_seconds) ==
  LET ban_days == (ban_seconds + 86399) \div 86400
      kick_days == (kick_seconds + 86399) \div 86400
  IN [db EXCEPT ![guild_id] =
        Some(Row(Some(ban_seconds), Some(kick_seconds),
                 Some(ban_days), Some(kick_days)))]

----------------------------------------------------------------------------
(* Whitelist table *)

\* the SELECT of line 97 with ORDER BY user_id DESC
RECURSIVE _whitelist_all_Descending(_)
_whitelist_all_Descending(table) ==
  IF table = {} THEN <<>>
  ELSE LET greatest == CHOOSE u \in table : \A v \in table : u >= v
       IN <<greatest>> \o _whitelist_all_Descending(table \ {greatest})

\* SELECT user_id ... ORDER BY user_id: the rows in ascending order
RECURSIVE _whitelist_all(_)
_whitelist_all(table) ==
  IF table = {} THEN <<>>
  ELSE LET least == CHOOSE u \in table : \A v \in table : u <= v
       IN <<least>> \o _whitelist_all(table \ {least})

\* the test of line 106 inverted
_whitelist_has_Inverted(table, user_id) == user_id \notin table

\* _whitelist_has
_whitelist_has(table, user_id) == user_id \in table

\* _whitelist_add: INSERT OR IGNORE
_whitelist_add(table, user_id) == table \cup {user_id}

\* line 121 as cur.rowcount >= 0
_whitelist_remove_AlwaysTrue(table, user_id) ==
  [table |-> table \ {user_id}, removed |-> TRUE]

\* _whitelist_remove: the table afterwards and cur.rowcount > 0
_whitelist_remove(table, user_id) ==
  [table |-> table \ {user_id}, removed |-> user_id \in table]

----------------------------------------------------------------------------
(* State *)

VARIABLES
  whitelist,                     \* rows of table whitelist (data/whitelist.db)
  settings,                      \* table settings (data/settings.db)
  config_file,                   \* log_channel_id in data/log_channel.json
  log_channel_id,                \* Moderation.log_channel_id
  default_ban_under_seconds,     \* Moderation.default_ban_under_seconds
  default_kick_under_seconds,    \* Moderation.default_kick_under_seconds
  join,                          \* the on_member_join coroutine in flight
  commands,                      \* commands and restarts executed so far
  handlers,                      \* the command coroutines in flight
  history,                       \* the writes the commands have made so far
  codec                          \* the last call of the duration codec

vars ==
  <<whitelist, settings, config_file, log_channel_id,
    default_ban_under_seconds, default_kick_under_seconds, join, commands,
    handlers, history, codec>>

\* one call made by a handler: the callee, the title of the embed it was
\* given, the channel it went to (0: none) and how it ended ("": a helper
\* of the cog, entered)
Call(op, arg, ch, res) == [op |-> op, arg |-> arg, ch |-> ch, res |-> res]

\* a coroutine that has not started: pc is the awaited call it is suspended
\* at ("idle" before the event, "done" after a normal return, "raised" after
\* an exception left the handler, exc naming it)
IdleJoin ==
  [pc |-> "idle", guild |-> 0, member |-> 0, bot |-> FALSE, age |-> 0,
   policy |-> None, action |-> "", sending |-> "", channel |-> 0,
   in_try |-> FALSE, trace |-> <<>>, exc |-> ""]

\* the coroutines of command handlers that can be in flight together
HandlerSlots == {1, 2}

\* the embed a command hands to ctx.send: its title, what its description
\* says and the values the description is formatted from
Reply(title, text, args) == [title |-> title, text |-> text, args |-> args]

\* a command coroutine: pc is "idle" before the dispatch and after the
\* return, "ctx_send" while it is suspended at its closing await
IdleHandler ==
  [pc |-> "idle", cmd |-> "", guild |-> 0, reply |-> Reply("", "", <<>>)]

\* what the commands have written, kept to state what a later read is to
\* return: per user the last whitelist command that went through ("add",
\* "remove"; a user in the table at the start was added before), per guild
\* the seconds of the last banday and of the last kickday that went
\* through, the channel of the last setlog, and whether a setlog has ever
\* written the file
InitialHistory(table) ==
  [exempt |-> [u \in Users |-> IF u \in table THEN "add" ELSE ""],
   ban_set |-> [g \in Guilds |-> None],
   kick_set |-> [g \in Guilds |-> None],
   target_set |-> None,
   persisted |-> FALSE]

----------------------------------------------------------------------------
(* Moderation.__init__ *)

Moderation__init__(ban_env, kick_env, log_env) ==
  /\ default_ban_under_seconds' = _int_env(ban_env, 7) * 86400
  /\ default_kick_under_seconds' = _int_env(kick_env, 30) * 86400
  /\ log_channel_id' = Or(_load_log_channel_id(config_file),
                          _log_channel_id(log_env))
  /\ join' = IdleJoin
  /\ handlers' = [h \in HandlerSlots |-> IdleHandler]

\* no call of the duration codec made yet
IdleCodec ==
  [op |-> "", raw |-> <<>>, parsed |-> None, seconds |-> 0, text |-> <<>>]

\* a start with none of the three environment variables set and no
\* configuration file, on a whitelist of lists and a settings table whose
\* guilds have rows of rows
Start(lists, rows) ==
  /\ whitelist \in lists
  /\ settings \in [Guilds -> rows]
  /\ config_file = None
  /\ commands = 0
  /\ default_ban_under_seconds = _int_env(EnvUnset, 7) * 86400
  /\ default_kick_under_seconds = _int_env(EnvUnset, 30) * 86400
  /\ log_channel_id = Or(_load_log_channel_id(config_file),
                         _log_channel_id(EnvUnset))
  /\ join = IdleJoin
  /\ handlers = [h \in HandlerSlots |-> IdleHandler]
  /\ history = InitialHistory(whitelist)
  /\ codec = IdleCodec

\* the whitelist is empty or holds user 2, the settings table is empty or
\* holds rows of the day-granularity schema
Init == Start({{}, {2}}, {None, Some(LegacyRow)})

----------------------------------------------------------------------------
(* on_member_join, its helpers _log and _notify_permission_issue *)

Returned(j) == [j EXCEPT !.pc = "done"]

Raised(j, exc) == [j EXCEPT !.pc = "raised", !.exc = exc]

Traced(j, call) == [j EXCEPT !.trace = Append(@, call)]

\* _log(guild, embed) up to its await: returns at once without a target or
\* when the target is no text channel of the guild.  Every call of _log is
\* the last statement of its caller, so its return ends the handler.
_log(j, title, in_try) ==
  LET j1 == Traced(j, Call("_log", title, 0, "")) IN
  IF ~Truthy(log_channel_id) THEN Returned(j1)
  ELSE IF IsTextChannelOf(j.guild, Get(log_channel_id))
  THEN [j1 EXCEPT !.pc = "channel_send", !.sending = title,
                  !.channel = Get(log_channel_id), !.in_try = in_try]
  ELSE Returned(j1)

\* _notify_permission_issue(guild, member) up to its first await;
\* owner_cached: guild.owner is not None
_notify_permission_issue(j, owner_cached) ==
  LET j1 == Traced(j, Call("_notify_permission_issue", "", 0, "")) IN
  IF Truthy(log_channel_id) THEN _log(j1, "Permission Error", FALSE)
  ELSE IF owner_cached THEN [j1 EXCEPT !.pc = "owner_send"]
  ELSE [j1 EXCEPT !.pc = "fetch_member"]

\* the comparisons of lines 636 and 662 made non-strict
Decide_NonStrict(age, ban_seconds, kick_seconds) ==
  IF age <= ban_seconds THEN "ban"
  ELSE IF age <= kick_seconds THEN "kick"
  ELSE "none"

\* lines 636 and 662: the branch taken for an account age
Decide(age, ban_seconds, kick_seconds) ==
  IF age < ban_seconds THEN "ban"
  ELSE IF age < kick_seconds THEN "kick"
  ELSE "none"

\* a read of a table by the handler: a sqlite3.Error leaves the handler
\* (nothing catches it), otherwise the value read
WhitelistRead(table, user_id, ok) ==
  IF ok THEN [exc |-> "", listed |-> _whitelist_has(table, user_id)]
  ELSE [exc |-> "sqlite3.Error", listed |-> FALSE]

\* the read with its sqlite3.Error caught and the defaults returned
SettingsRead_DefaultsOnError(db, guild_id, default_ban_seconds, default_kick_seconds, ok) ==
  IF ok
  THEN LET got == _settings_get(db, guild_id, default_ban_seconds,
                                default_kick_seconds)
       IN [exc |-> "", ret |-> Some(got.ret), db |-> got.db]
  ELSE [exc |-> "", ret |-> Some(<<default_ban_seconds, default_kick_seconds>>),
        db |-> db]

SettingsRead(db, guild_id, default_ban_seconds, default_kick_seconds, ok) ==
  IF ok
  THEN LET got == _settings_get(db, guild_id, default_ban_seconds,
                                default_kick_seconds)
       IN [exc |-> "", ret |-> Some(got.ret), db |-> got.db]
  ELSE [exc |-> "sqlite3.Error", ret |-> None, db |-> db]

\* the event arrives: the handler runs to its first await (member.send),
\* returns, or is left by a sqlite3.Error of one of the two table reads
MemberJoin(guild, member, bot, age, whitelist_ok, settings_ok) ==
  /\ join.pc = "idle"
  /\ LET j == [join EXCEPT !.guild = guild, !.member = member,
                           !.bot = bot, !.age = age]
         wl == WhitelistRead(whitelist, member, whitelist_ok)
         j1 == Traced(j, Call("_whitelist_has", "", 0,
                              IF whitelist_ok THEN "ok" ELSE "sqlite3.Error"))
         got == SettingsRead(settings, guild, default_ban_under_seconds,
                             default_kick_under_seconds, settings_ok)
         j2 == Traced(j1, Call("_settings_get", "", 0,
                               IF settings_ok THEN "ok" ELSE "sqlite3.Error"))
     IN
     IF bot THEN
       /\ join' = Returned(j)
       /\ UNCHANGED settings
     ELSE IF wl.exc # "" THEN
       /\ join' = Raised(j1, wl.exc)
       /\ UNCHANGED settings
     ELSE IF wl.listed THEN
       /\ join' = Returned(j1)
       /\ UNCHANGED settings
     ELSE IF got.exc # "" THEN
       /\ join' = Raised(j2, got.exc)
       /\ UNCHANGED settings
     ELSE
       LET act == Decide(age, Get(got.ret)[1], Get(got.ret)[2])
           j3 == [j2 EXCEPT !.policy = got.ret, !.action = act]
       IN /\ settings' = got.db
          /\ join' = IF act = "none" THEN Returned(j3)
                      ELSE [j3 EXCEPT !.pc = "member_send"]
  /\ UNCHANGED <<whitelist, config_file, log_channel_id,
                 default_ban_under_seconds, default_kick_under_seconds,
                 commands, handlers, history, codec>>

\* member.send without the try of lines 641 and 667: what it raises reaches
\* the except clauses of lines 686 and 688
AfterMemberSend_Uncaught(j, res) ==
  LET j1 == Traced(j, Call("member.send",
                           IF j.action = "ban" THEN "Banned" ELSE "Kicked",
                           0, res))
  IN IF res = "ok" THEN [j1 EXCEPT !.pc = "moderate"]
     ELSE IF res = "Forbidden" THEN _notify_permission_issue(j1, TRUE)
     ELSE _log(j1, "Moderation Error", FALSE)

\* on_member_join looking the member up in the whitelist again when
\* member.send is over, and returning if the member is listed by then
AfterMemberSend_RereadsWhitelist(j, res) ==
  LET j1 == Traced(j, Call("member.send",
                           IF j.action = "ban" THEN "Banned" ELSE "Kicked",
                           0, res))
  IN IF _whitelist_has(whitelist, j.member) THEN Returned(j1)
     ELSE [j1 EXCEPT !.pc = "moderate"]

\* lines 641-650 and 667-676: whatever member.send raised is an
\* HTTPException and is passed over; the handler goes on to member.ban or
\* member.kick
AfterMemberSend(j, res) ==
  [Traced(j, Call("member.send",
                  IF j.action = "ban" THEN "Banned" ELSE "Kicked", 0, res))
     EXCEPT !.pc = "moderate"]

MemberSend(res) ==
  /\ join.pc = "member_send"
  /\ join' = AfterMemberSend(join, res)
  /\ UNCHANGED <<whitelist, settings, config_file, log_channel_id,
                 default_ban_under_seconds, default_kick_under_seconds,
                 commands, handlers, history, codec>>

\* the except clause of line 688 calling member.ban / member.kick again
AfterModerate_Retry(j, res, owner_cached) ==
  LET j1 == Traced(j, Call(IF j.action = "ban" THEN "member.ban"
                           ELSE "member.kick", "", 0, res))
  IN IF res = "ok"
     THEN _log(j1, IF j.action = "ban" THEN "User Banned" ELSE "User Kicked",
               TRUE)
     ELSE IF res = "Forbidden" THEN _notify_permission_issue(j1, owner_cached)
     ELSE [j1 EXCEPT !.pc = "moderate"]

\* lines 651-660, 677-696: after member.ban / member.kick: the success
\* record, or the except clause that matches what was raised
AfterModerate(j, res, owner_cached) ==
  LET j1 == Traced(j, Call(IF j.action = "ban" THEN "member.ban"
                           ELSE "member.kick", "", 0, res))
  IN IF res = "ok"
     THEN _log(j1, IF j.action = "ban" THEN "User Banned" ELSE "User Kicked",
               TRUE)
     ELSE IF res = "Forbidden" THEN _notify_permission_issue(j1, owner_cached)
     ELSE _log(j1, "Moderation Error", FALSE)

Moderate(res, owner_cached) ==
  /\ join.pc = "moderate"
  /\ join' = AfterModerate(join, res, owner_cached)
  /\ UNCHANGED <<whitelist, settings, config_file, log_channel_id,
                 default_ban_under_seconds, default_kick_under_seconds,
                 commands, handlers, history, codec>>

\* line 262, channel.send inside _log: an exception leaves _log; raised
\* from the success record (inside the try of line 635) it reaches the
\* except clauses of lines 686 and 688, raised from an except clause or
\* from _notify_permission_issue it leaves the handler
AfterChannelSend(j, res, owner_cached) ==
  LET j1 == Traced(j, Call("channel.send", j.sending, j.channel, res)) IN
  IF res = "ok" THEN Returned(j1)
  ELSE IF j.in_try
  THEN IF res = "Forbidden" THEN _notify_permission_issue(j1, owner_cached)
       ELSE _log(j1, "Moderation Error", FALSE)
  ELSE Raised(j1, res)

ChannelSend(res, owner_cached) ==
  /\ join.pc = "channel_send"
  /\ join' = AfterChannelSend(join, res, owner_cached)
  /\ UNCHANGED <<whitelist, settings, config_file, log_channel_id,
                 default_ban_under_seconds, default_kick_under_seconds,
                 commands, handlers, history, codec>>

\* lines 282-285: guild.fetch_member(guild.owner_id)
AfterFetchMember(j, res) ==
  LET j1 == Traced(j, Call("guild.fetch_member", "", 0, res)) IN
  IF res = "ok" THEN [j1 EXCEPT !.pc = "owner_send"] ELSE Returned(j1)

FetchMember(res) ==
  /\ join.pc = "fetch_member"
  /\ join' = AfterFetchMember(join, res)
  /\ UNCHANGED <<whitelist, settings, config_file, log_channel_id,
                 default_ban_under_seconds, default_kick_under_seconds,
                 commands, handlers, history, codec>>

\* lines 286-290: owner.send, its failure passed over
AfterOwnerSend(j, res) ==
  Returned(Traced(j, Call("owner.send", "Permission Error", 0, res)))

OwnerSend(res) ==
  /\ join.pc = "owner_send"
  /\ join' = AfterOwnerSend(join, res)
  /\ UNCHANGED <<whitelist, settings, config_file, log_channel_id,
                 default_ban_under_seconds, default_kick_under_seconds,
                 commands, handlers, history, codec>>

\* the dispatcher drops a finished coroutine; its slot takes the next event
Finished ==
  /\ join.pc \in {"done", "raised"}
  /\ join' = IdleJoin
  /\ UNCHANGED <<whitelist, settings, config_file, log_channel_id,
                 default_ban_under_seconds, default_kick_under_seconds,
                 commands, handlers, history, codec>>

----------------------------------------------------------------------------
(* Administrative commands.  Each one runs without suspension up to its     *)
(* closing ctx.send, after every change of state.                           *)

\* setlog: the attribute is set before the file is written
set_log_channel(channel, save) ==
  /\ commands < MaxCommands
  /\ commands' = commands + 1
  /\ log_channel_id' = Some(channel)
  /\ config_file' = _save_log_channel_id(config_file, channel, save)
  /\ UNCHANGED <<whitelist, settings, default_ban_under_seconds,
                 default_kick_under_seconds, join,
                 handlers, history, codec>>

\* banday / kickday reading the settings before the duration is parsed
SetThreshold_ReadFirst(db, guild_id, which, duration, default_ban, default_kick, fail) ==
  LET seconds == _parse_duration(duration) IN
  IF fail = "get" THEN db
  ELSE LET got == _settings_get(db, guild_id, default_ban, default_kick)
       IN IF seconds = None \/ seconds = ValueError \/ fail = "set"
          THEN got.db
          ELSE IF which = "ban"
          THEN _settings_set(got.db, guild_id, Get(seconds), got.ret[2])
          ELSE _settings_set(got.db, guild_id, got.ret[1], Get(seconds))

\* banday / kickday writing the default of the process for the threshold
\* they do not set, instead of the one read
SetThreshold_OtherFromDefault(db, guild_id, which, duration, default_ban, default_kick, fail) ==
  LET seconds == _parse_duration(duration) IN
  IF seconds = None \/ seconds = ValueError \/ fail = "get" THEN db
  ELSE LET got == _settings_get(db, guild_id, default_ban, default_kick)
       IN IF fail = "set" THEN got.db
          ELSE IF which = "ban"
          THEN _settings_set(got.db, guild_id, Get(seconds), default_kick)
          ELSE _settings_set(got.db, guild_id, default_ban, Get(seconds))

\* the table after banday / kickday; fail names the table call that raised
\* sqlite3.Error ("none": neither); a ValueError of _parse_duration leaves
\* the handler before any table call
SetThreshold(db, guild_id, which, duration, default_ban, default_kick, fail) ==
  LET seconds == _parse_duration(duration) IN
  IF seconds = None \/ seconds = ValueError \/ fail = "get" THEN db
  ELSE LET got == _settings_get(db, guild_id, default_ban, default_kick)
       IN IF fail = "set" THEN got.db
          ELSE IF which = "ban"
          THEN _settings_set(got.db, guild_id, Get(seconds), got.ret[2])
          ELSE _settings_set(got.db, guild_id, got.ret[1], Get(seconds))

\* banday
set_ban_days(guild, duration, fail) ==
  /\ commands < MaxCommands
  /\ commands' = commands + 1
  /\ settings' = SetThreshold(settings, guild, "ban", duration,
                              default_ban_under_seconds,
                              default_kick_under_seconds, fail)
  /\ UNCHANGED <<whitelist, config_file, log_channel_id,
                 default_ban_under_seconds, default_kick_under_seconds, join,
                 handlers, history, codec>>

\* kickday
set_kick_days(guild, duration, fail) ==
  /\ commands < MaxCommands
  /\ commands' = commands + 1
  /\ settings' = SetThreshold(settings, guild, "kick", duration,
                              default_ban_under_seconds,
                              default_kick_under_seconds, fail)
  /\ UNCHANGED <<whitelist, config_file, log_channel_id,
                 default_ban_under_seconds, default_kick_under_seconds, join,
                 handlers, history, codec>>

\* showday
show_days(guild, ok) ==
  /\ commands < MaxCommands
  /\ commands' = commands + 1
  /\ settings' = SettingsRead(settings, guild, default_ban_under_seconds,
                              default_kick_under_seconds, ok).db
  /\ UNCHANGED <<whitelist, config_file, log_channel_id,
                 default_ban_under_seconds, default_kick_under_seconds, join,
                 handlers, history, codec>>

\* whitelist add (prefix and slash command)
whitelist_add(user_id, ok) ==
  /\ commands < MaxCommands
  /\ commands' = commands + 1
  /\ whitelist' = IF ok THEN _whitelist_add(whitelist, user_id) ELSE whitelist
  /\ UNCHANGED <<settings, config_file, log_channel_id,
                 default_ban_under_seconds, default_kick_under_seconds, join,
                 handlers, history, codec>>

\* whitelist remove (prefix and slash command)
whitelist_remove(user_id, ok) ==
  /\ commands < MaxCommands
  /\ commands' = commands + 1
  /\ whitelist' = IF ok THEN _whitelist_remove(whitelist, user_id).table
                  ELSE whitelist
  /\ UNCHANGED <<settings, config_file, log_channel_id,
                 default_ban_under_seconds, default_kick_under_seconds, join,
                 handlers, history, codec>>

\* the process stops and starts again: the coroutines in flight are gone,
\* the tables and the file stay, the environment may have changed
Restart(ban_env, kick_env, log_env) ==
  /\ commands < MaxCommands
  /\ commands' = commands + 1
  /\ Moderation__init__(ban_env, kick_env, log_env)
  /\ UNCHANGED <<whitelist, settings, config_file, history, codec>>

----------------------------------------------------------------------------

Next ==
  \/ \E guild \in Guilds, member \in Users, bot \in BOOLEAN, age \in Ages,
        whitelist_ok \in BOOLEAN, settings_ok \in BOOLEAN :
       MemberJoin(guild, member, bot, age, whitelist_ok, settings_ok)
  \/ \E res \in ApiResults : MemberSend(res)
  \/ \E res \in ApiResults, owner_cached \in BOOLEAN :
       Moderate(res, owner_cached)
  \/ \E res \in ApiResults, owner_cached \in BOOLEAN :
       ChannelSend(res, owner_cached)
  \/ \E res \in ApiResults : FetchMember(res)
  \/ \E res \in ApiResults : OwnerSend(res)
  \/ Finished
  \/ \E channel \in TextChannelIds, save \in SaveResults :
       set_log_channel(channel, save)
  \/ \E guild \in Guilds, duration \in Durations,
        fail \in {"none", "get", "set"} : set_ban_days(guild, duration, fail)
  \/ \E guild \in Guilds, duration \in Durations,
        fail \in {"none", "get", "set"} : set_kick_days(guild, duration, fail)
  \/ \E guild \in Guilds, ok \in BOOLEAN : show_days(guild, ok)
  \/ \E user_id \in Users, ok \in BOOLEAN : whitelist_add(user_id, ok)
  \/ \E user_id \in Users, ok \in BOOLEAN : whitelist_remove(user_id, ok)
  \/ \E ban_env \in BanDaysEnv, kick_env \in KickDaysEnv,
        log_env \in LogChannelEnv : Restart(ban_env, kick_env, log_env)

Spec == Init /\ [][Next]_vars

----------------------------------------------------------------------------
(* The command handlers as coroutines.  A handler runs without suspension   *)
(* from its dispatch to its closing await of ctx.send, which comes after    *)
(* every change of state; a sqlite3.Error or an OSError leaves the handler  *)
(* before it has anything to send.  No on_member_join runs here.            *)

\* the coroutine suspended at ctx.send(embed=reply)
Suspended(cmd, guild, reply) ==
  [pc |-> "ctx_send", cmd |-> cmd, guild |-> guild, reply |-> reply]

\* the dispatcher starts a coroutine: h is the first slot that is free
Dispatch(h) ==
  /\ commands < MaxInvocations
  /\ commands' = commands + 1
  /\ handlers[h].pc = "idle"
  /\ \A k \in HandlerSlots : k < h => handlers[k].pc # "idle"
  /\ UNCHANGED codec

\* banday (which = "ban") and kickday (which = "kick") up to ctx.send
InvokeThreshold(h, guild, which, duration, fail) ==
  /\ Dispatch(h)
  /\ settings' = SetThreshold(settings, guild, which, duration,
                              default_ban_under_seconds,
                              default_kick_under_seconds, fail)
  /\ LET seconds == _parse_duration(duration)
         cmd == IF which = "ban" THEN "banday" ELSE "kickday"
     IN IF seconds = None
        THEN /\ handlers' = [handlers EXCEPT ![h] =
                  Suspended(cmd, guild, Reply("Invalid Value", "", <<>>))]
             /\ UNCHANGED history
        ELSE IF seconds = ValueError \/ fail # "none"
        THEN UNCHANGED <<handlers, history>>
        ELSE /\ handlers' = [handlers EXCEPT ![h] =
                  Suspended(cmd, guild,
                            Reply(IF which = "ban" THEN "Ban Time Set"
                                  ELSE "Kick Time Set", "", <<Get(seconds)>>))]
             /\ history' = IF which = "ban"
                           THEN [history EXCEPT !.ban_set[guild] = seconds]
                           ELSE [history EXCEPT !.kick_set[guild] = seconds]
  /\ UNCHANGED <<whitelist, config_file, log_channel_id,
                 default_ban_under_seconds, default_kick_under_seconds, join>>

Invoke_set_ban_days(h, guild, duration, fail) ==
  InvokeThreshold(h, guild, "ban", duration, fail)

Invoke_set_kick_days(h, guild, duration, fail) ==
  InvokeThreshold(h, guild, "kick", duration, fail)

\* showday up to ctx.send
Invoke_show_days(h, guild, ok) ==
  /\ Dispatch(h)
  /\ LET got == SettingsRead(settings, guild, default_ban_under_seconds,
                             default_kick_under_seconds, ok)
     IN /\ settings' = got.db
        /\ handlers' = IF got.exc # "" THEN handlers
                       ELSE [handlers EXCEPT ![h] =
                               Suspended("showday", guild,
                                         Reply("Current Settings", "",
                                               Get(got.ret)))]
  /\ UNCHANGED <<whitelist, config_file, log_channel_id,
                 default_ban_under_seconds, default_kick_under_seconds, join,
                 history>>

\* whitelist add (prefix and slash command) up to ctx.send
Invoke_whitelist_add(h, user_id, ok) ==
  /\ Dispatch(h)
  /\ IF ok
     THEN /\ whitelist' = _whitelist_add(whitelist, user_id)
          /\ handlers' = [handlers EXCEPT ![h] =
               Suspended("whitelist add", 0,
                         Reply("Whitelist Updated", "Added", <<user_id>>))]
          /\ history' = [history EXCEPT !.exempt[user_id] = "add"]
     ELSE UNCHANGED <<whitelist, handlers, history>>
  /\ UNCHANGED <<settings, config_file, log_channel_id,
                 default_ban_under_seconds, default_kick_under_seconds, join>>

\* whitelist remove (prefix and slash command) up to ctx.send
Invoke_whitelist_remove(h, user_id, ok) ==
  /\ Dispatch(h)
  /\ IF ok
     THEN LET rem == _whitelist_remove(whitelist, user_id) IN
          /\ whitelist' = rem.table
          /\ handlers' = [handlers EXCEPT ![h] =
               Suspended("whitelist remove", 0,
                         IF rem.removed
                         THEN Reply("Whitelist Updated", "Removed",
                                    <<user_id>>)
                         ELSE Reply("Whitelist", "not in the whitelist",
                                    <<>>))]
          /\ history' = [history EXCEPT !.exempt[user_id] = "remove"]
     ELSE UNCHANGED <<whitelist, handlers, history>>
  /\ UNCHANGED <<settings, config_file, log_channel_id,
                 default_ban_under_seconds, default_kick_under_seconds, join>>

\* whitelist and whitelist list (prefix and slash command) up to ctx.send
Invoke_whitelist_list(h, ok) ==
  /\ Dispatch(h)
  /\ handlers' = IF ~ok THEN handlers
                 ELSE LET ids == _whitelist_all(whitelist) IN
                      [handlers EXCEPT ![h] =
                         Suspended("whitelist list", 0,
                                   IF ids = <<>>
                                   THEN Reply("Whitelist", "empty", <<>>)
                                   ELSE Reply("Whitelist IDs", "", ids))]
  /\ UNCHANGED <<whitelist, settings, config_file, log_channel_id,
                 default_ban_under_seconds, default_kick_under_seconds, join,
                 history>>

\* setlog up to ctx.send: the attribute is set, then the file is written
Invoke_set_log_channel(h, channel, save) ==
  /\ Dispatch(h)
  /\ log_channel_id' = Some(channel)
  /\ config_file' = _save_log_channel_id(config_file, channel, save)
  /\ handlers' = IF save # "ok" THEN handlers
                 ELSE [handlers EXCEPT ![h] =
                         Suspended("setlog", 0,
                                   Reply("Log Channel Set", "", <<channel>>))]
  /\ history' = [history EXCEPT !.target_set = Some(channel),
                                !.persisted = @ \/ save = "ok"]
  /\ UNCHANGED <<whitelist, settings, default_ban_under_seconds,
                 default_kick_under_seconds, join>>

\* ctx.send returns or raises: either way the coroutine is over
CtxSend(h) ==
  /\ handlers[h].pc = "ctx_send"
  /\ handlers' = [handlers EXCEPT ![h] = IdleHandler]
  /\ UNCHANGED <<whitelist, settings, config_file, log_channel_id,
                 default_ban_under_seconds, default_kick_under_seconds, join,
                 commands, history, codec>>

\* the process stops and starts again between two commands
Reboot(ban_env, kick_env, log_env) ==
  /\ commands < MaxInvocations
  /\ commands' = commands + 1
  /\ Moderation__init__(ban_env, kick_env, log_env)
  /\ UNCHANGED <<whitelist, settings, config_file, history, codec>>

StoreNext ==
  \/ \E h \in HandlerSlots, guild \in Guilds, duration \in Durations,
        fail \in {"none", "get", "set"} :
       Invoke_set_ban_days(h, guild, duration, fail)
  \/ \E h \in HandlerSlots, guild \in Guilds, duration \in Durations,
        fail \in {"none", "get", "set"} :
       Invoke_set_kick_days(h, guild, duration, fail)
  \/ \E h \in HandlerSlots, guild \in Guilds, ok \in BOOLEAN :
       Invoke_show_days(h, guild, ok)
  \/ \E h \in HandlerSlots, user_id \in Users, ok \in BOOLEAN :
       Invoke_whitelist_add(h, user_id, ok)
  \/ \E h \in HandlerSlots, user_id \in Users, ok \in BOOLEAN :
       Invoke_whitelist_remove(h, user_id, ok)
  \/ \E h \in HandlerSlots, ok \in BOOLEAN : Invoke_whitelist_list(h, ok)
  \/ \E h \in HandlerSlots, channel \in TextChannelIds, save \in SaveResults :
       Invoke_set_log_channel(h, channel, save)
  \/ \E h \in HandlerSlots : CtxSend(h)
  \/ \E ban_env \in BanDaysEnv, kick_env \in KickDaysEnv,
        log_env \in LogChannelEnv : Reboot(ban_env, kick_env, log_env)

StoreSpec == Init /\ [][StoreNext]_vars

----------------------------------------------------------------------------
(* The settings table on its own: banday, kickday and showday as in         *)
(* StoreNext, on a table that also holds rows of the schema between the     *)
(* day-granularity and the second-granularity one, and with thresholds that *)
(* are no whole number of days.                                             *)

\* the duration texts an operator types: "90m", "0", "86401s", "-5d", "²"
PolicyDurations ==
  { <<"9", "0", "m">>, <<"0">>, <<"8", "6", "4", "0", "1", "s">>,
    <<"-", "5", "d">>, <<"²">> }

PolicyInit == Start({{}}, {None, Some(LegacyRow), Some(PartialRow)})

PolicyNext ==
  \/ \E h \in HandlerSlots, guild \in Guilds, duration \in PolicyDurations,
        fail \in {"none", "get", "set"} :
       Invoke_set_ban_days(h, guild, duration, fail)
  \/ \E h \in HandlerSlots, guild \in Guilds, duration \in PolicyDurations,
        fail \in {"none", "get", "set"} :
       Invoke_set_kick_days(h, guild, duration, fail)
  \/ \E h \in HandlerSlots, guild \in Guilds, ok \in BOOLEAN :
       Invoke_show_days(h, guild, ok)
  \/ \E h \in HandlerSlots : CtxSend(h)
  \/ \E ban_env \in BanDaysEnv, kick_env \in KickDaysEnv,
        log_env \in LogChannelEnv : Reboot(ban_env, kick_env, log_env)

PolicySpec == PolicyInit /\ [][PolicyNext]_vars

----------------------------------------------------------------------------
(* The duration codec on its own: one call of _parse_duration or of        *)
(* _humanize_duration, as banday, kickday, showday and on_member_join make  *)
(* them, on a text or a number of seconds of a bounded set.                 *)

\* the characters of the texts: digits, a blank, a minus sign, the unit
\* letters in either case, a letter that is no unit, a superscript digit
TextChars == {"0", "1", "2", " ", "-", "s", "m", "H", "d", "W", "x", "²"}

Texts == UNION {[1..n -> TextChars] : n \in 0..MaxTextLen}

\* counts of weeks, days, hours, minutes and seconds: small ones and 59
UnitCounts == (0..MaxCount) \cup {59}

SecondsValues ==
  {-1} \cup {w * 604800 + d * 86400 + h * 3600 + m * 60 + sec :
               w \in UnitCounts, d \in UnitCounts, h \in UnitCounts,
               m \in UnitCounts, sec \in UnitCounts}

\* _parse_duration(raw) for a text raw
Call_parse_duration ==
  /\ codec.op = ""
  /\ \E raw \in Texts :
       codec' = [IdleCodec EXCEPT !.op = "_parse_duration", !.raw = raw,
                                  !.parsed = _parse_duration(raw)]
  /\ UNCHANGED <<whitelist, settings, config_file, log_channel_id,
                 default_ban_under_seconds, default_kick_under_seconds, join,
                 commands, handlers, history>>

\* _humanize_duration(seconds) for a number of seconds
Call_humanize_duration ==
  /\ codec.op = ""
  /\ \E seconds \in SecondsValues :
       codec' = [IdleCodec EXCEPT !.op = "_humanize_duration",
                                  !.seconds = seconds,
                                  !.text = _humanize_duration(seconds)]
  /\ UNCHANGED <<whitelist, settings, config_file, log_channel_id,
                 default_ban_under_seconds, default_kick_under_seconds, join,
                 commands, handlers, history>>

CodecNext ==
  \/ Call_parse_duration
  \/ Call_humanize_duration

CodecSpec == Init /\ [][CodecNext]_vars

----------------------------------------------------------------------------
(* What a handler has done, read from its trace *)

ModerationOps == {"member.ban", "member.kick"}

StorageOps == {"_whitelist_has", "_settings_get"}

\* positions in the trace of the calls of the given callees
CallsOf(ops) == {i \in DOMAIN join.trace : join.trace[i].op \in ops}

\* the event has arrived in this step
Arrival == join.pc = "idle" /\ join'.pc # "idle"

----------------------------------------------------------------------------
(* C1: for a member that is neither a bot nor whitelisted, and whose table  *)
(* reads succeed, the handler reads the thresholds stored for the guild and *)
(* chooses ban when age < ban threshold, else kick when age < kick          *)
(* threshold, else nothing, with strict comparisons; member.ban is called   *)
(* only when ban was chosen and member.kick only when kick was chosen.      *)

C1_Choice(age, ban, kick) ==
  IF age < ban THEN "ban" ELSE IF age < kick THEN "kick" ELSE "none"

C1_Step ==
  (Arrival /\ ~join'.bot /\ join'.member \notin whitelist
           /\ join'.pc # "raised")
  => /\ settings'[join'.guild] # None
     /\ LET row == Get(settings'[join'.guild])
            ban == Get(row.ban_under_seconds)
            kick == Get(row.kick_under_seconds)
        IN /\ join'.policy = Some(<<ban, kick>>)
           /\ join'.action = C1_Choice(join'.age, ban, kick)
           /\ join'.pc = IF join'.action = "none" THEN "done"
                         ELSE "member_send"

C1_Calls ==
  /\ \A i \in CallsOf({"member.ban"}) :
       join.age < Get(join.policy)[1]
  /\ \A i \in CallsOf({"member.kick"}) :
       /\ join.age >= Get(join.policy)[1]
       /\ join.age < Get(join.policy)[2]
  /\ (join.pc = "moderate" => join.action \in {"ban", "kick"})
  /\ (join.action = "none" => CallsOf(ModerationOps) = {})

\* C1: the action is ban iff age < ban threshold, else kick iff age < kick
\* threshold, else none, and the moderation call made is the one chosen
C1_DecisionByAge == [][C1_Step]_vars /\ []C1_Calls

\* an account exactly as old as the ban threshold was kicked, not banned
C1_Witness ==
  /\ join.action = "kick"
  /\ join.age = Get(join.policy)[1]
  /\ \E i \in CallsOf({"member.kick"}) : join.trace[i].res = "ok"

----------------------------------------------------------------------------
(* C2: a join of a bot, or of a user that is in the whitelist when the      *)
(* event arrives, ends the handler at once: no call to discord is made (no  *)
(* direct message, no kick or ban, no _log, no _notify_permission_issue),   *)
(* no action is chosen and the settings table is not touched, whatever the  *)
(* age and the guild; a handler that has ended does nothing more.           *)

DiscordCalls(j) == {i \in DOMAIN j.trace : j.trace[i].op \notin StorageOps}

C2_Step ==
  (Arrival /\ (join'.bot \/ join'.member \in whitelist))
  => /\ join'.pc \in {"done", "raised"}
     /\ DiscordCalls(join') = {}
     /\ join'.action = ""
     /\ settings' = settings

C2_Ended ==
  join.pc \in {"done", "raised"} => join' = join \/ join' = IdleJoin

\* C2: a bot or whitelisted member causes no discord call and no action
C2_ExemptSkipped == [][C2_Step /\ C2_Ended]_vars

\* a whitelisted account created this very second has joined guild 2
C2_Witness ==
  /\ join.pc = "done"
  /\ ~join.bot
  /\ join.member \in whitelist
  /\ join.age = 0
  /\ join.guild = 2
  /\ DiscordCalls(join) = {}

----------------------------------------------------------------------------
(* C3: _notify_permission_issue is entered only after member.ban or         *)
(* member.kick of the same event raised Forbidden.                          *)

\* C3: every _notify_permission_issue follows a moderation call of the same
\* event that raised Forbidden
C3_EscalationOnlyOnDenied ==
  \A i \in CallsOf({"_notify_permission_issue"}) :
    \E k \in CallsOf(ModerationOps) :
      k < i /\ join.trace[k].res = "Forbidden"

----------------------------------------------------------------------------
(* C4: when member.ban or member.kick raises Forbidden, the notice goes to  *)
(* the log channel if one is set, and otherwise the owner is resolved       *)
(* (cached, or fetched) to be sent the notice; one event never has both a   *)
(* channel send of the notice and an owner resolution or owner message.     *)

\* this step is the return of the moderation call, with the given result
ModerationReturns(res) ==
  /\ join.pc = "moderate"
  /\ Len(join'.trace) > Len(join.trace)
  /\ join'.trace[Len(join.trace) + 1].op \in ModerationOps
  /\ join'.trace[Len(join.trace) + 1].res = res

C4_Step ==
  ModerationReturns("Forbidden")
  => IF Truthy(log_channel_id)
     THEN /\ join'.pc = "channel_send"
          /\ join'.channel = Get(log_channel_id)
          /\ join'.sending = "Permission Error"
     ELSE join'.pc \in {"fetch_member", "owner_send"}

C4_NotBoth ==
  ~ /\ \/ join.pc = "channel_send" /\ join.sending = "Permission Error"
       \/ \E i \in CallsOf({"channel.send"}) :
            join.trace[i].arg = "Permission Error"
    /\ \/ join.pc \in {"fetch_member", "owner_send"}
       \/ CallsOf({"guild.fetch_member", "owner.send"}) # {}

\* C4: a denied moderation call routes the notice to the log channel if one
\* is set, else to the owner, never to both
C4_EscalationRouting == [][C4_Step]_vars /\ []C4_NotBoth

----------------------------------------------------------------------------
(* C5: no exception leaves a handler that has entered                       *)
(* _notify_permission_issue, whatever its channel send, owner resolution    *)
(* and owner message do.                                                    *)

\* C5: a handler that escalated never ends by an exception
C5_EscalationNeverRaises ==
  ~(join.pc = "raised" /\ CallsOf({"_notify_permission_issue"}) # {})

----------------------------------------------------------------------------
(* C6: once ban or kick is chosen the member is sent a direct message, and  *)
(* whatever that send returns or raises the very next call is member.ban or *)
(* member.kick: the moderation call always directly follows a message       *)
(* attempt, and neither _notify_permission_issue nor a failure record comes *)
(* before the moderation call.                                              *)

\* C6: the moderation call directly follows the message attempt, whatever
\* the attempt's outcome
C6_DmThenModerate ==
  LET dm == CallsOf({"member.send"})
      mod == CallsOf(ModerationOps)
  IN /\ join.action \in {"ban", "kick"}
          => join.pc = "member_send" \/ dm # {}
     /\ \A i \in mod : i - 1 \in dm
     /\ join.pc = "moderate" => Len(join.trace) \in dm
     /\ \A i \in dm :
          \/ i = Len(join.trace) /\ join.pc = "moderate"
          \/ i + 1 \in mod
     /\ \A i \in CallsOf({"_notify_permission_issue", "_log"}) :
          \E k \in mod : k < i

\* the message to the member failed, the ban went through, and the handler
\* ended without escalation or failure record
C6_Witness ==
  /\ join.pc = "done"
  /\ \E i \in CallsOf({"member.send"}) :
       /\ join.trace[i].res = "Forbidden"
       /\ join.trace[i + 1].op = "member.ban"
       /\ join.trace[i + 1].res = "ok"
  /\ CallsOf({"_notify_permission_issue"}) = {}
  /\ \A i \in CallsOf({"_log"}) : join.trace[i].arg = "User Banned"

----------------------------------------------------------------------------
(* C7: one join event makes at most one call of member.ban or member.kick,  *)
(* counting the one it is suspended at; after a call that raised, the       *)
(* handler never waits on another.                                          *)

\* C7: at most one moderation call per join event, none after a failed one
C7_ModerateOnce ==
  LET mod == CallsOf(ModerationOps) IN
  /\ Cardinality(mod) + (IF join.pc = "moderate" THEN 1 ELSE 0) <= 1
  /\ \A i \in mod : join.trace[i].res # "ok" => join.pc # "moderate"

\* a kick failed with an HTTPException other than Forbidden, and the
\* handler has ended
C7_Witness ==
  /\ join.pc = "done"
  /\ \E i \in CallsOf({"member.kick"}) : join.trace[i].res = "HTTPException"

----------------------------------------------------------------------------
(* C8: when member.ban or member.kick succeeds and a log channel is set,    *)
(* the success record is sent to that channel, in whichever guild the       *)
(* member joined; when none is set nothing is sent and the handler ends.    *)

C8_Step ==
  ModerationReturns("ok")
  => IF Truthy(log_channel_id)
     THEN /\ join'.pc = "channel_send"
          /\ join'.channel = Get(log_channel_id)
          /\ join'.sending \in {"User Banned", "User Kicked"}
     ELSE /\ join'.pc = "done"
          /\ {i \in DOMAIN join'.trace :
                join'.trace[i].op = "channel.send"} = {}

\* C8: a successful moderation call sends the success record to the log
\* channel whenever one is set, and sends nothing when none is set
C8_AuditOnSuccess == [][C8_Step]_vars

----------------------------------------------------------------------------
(* C9: the "Moderation Error" record is handed to _log exactly for the      *)
(* events whose member.ban or member.kick raised an HTTPException other     *)
(* than Forbidden, and such an event never enters                           *)
(* _notify_permission_issue.                                                *)

\* C9: the failure record is emitted iff the moderation call raised an
\* HTTPException other than Forbidden
C9_FailureRecordIffOtherFailure ==
  LET mod == CallsOf(ModerationOps)
      failed == {k \in mod : join.trace[k].res = "HTTPException"}
      records == {i \in CallsOf({"_log"}) :
                    join.trace[i].arg = "Moderation Error"}
  IN /\ \A i \in records : \E k \in failed : k < i
     /\ \A k \in failed :
          /\ \E i \in records : i > k
          /\ CallsOf({"_notify_permission_issue"}) = {}

----------------------------------------------------------------------------
(* C10: a sqlite3.Error of the whitelist lookup or of the settings read is  *)
(* the last thing the handler does: it leaves the handler as that           *)
(* exception, no thresholds are taken and no action is chosen, so no        *)
(* message, kick, ban, record or escalation follows.                        *)

\* C10: a sqlite3.Error of a table read leaves the handler with nothing
\* decided and nothing done
C10_StorageErrorSurfaces ==
  \A i \in CallsOf(StorageOps) :
    join.trace[i].res = "sqlite3.Error"
    => /\ join.pc = "raised"
       /\ join.exc = "sqlite3.Error"
       /\ i = Len(join.trace)
       /\ join.policy = None
       /\ join.action = ""

\* the settings read failed for a member that is not whitelisted
C10_Witness ==
  /\ join.pc = "raised"
  /\ join.trace # <<>>
  /\ join.trace[Len(join.trace)].op = "_settings_get"
  /\ join.trace[Len(join.trace)].res = "sqlite3.Error"
  /\ join.member \notin whitelist

----------------------------------------------------------------------------
(* What a command handler has done, read from its coroutine *)

\* this step dispatches slot h for cmd and runs it to its ctx.send
Invoked(h, cmd) ==
  /\ handlers[h].pc = "idle"
  /\ handlers'[h].pc = "ctx_send"
  /\ handlers'[h].cmd = cmd

\* the pair _settings_get returns for a guild under the defaults of the
\* running process
GetPolicy(db, guild_id) ==
  _settings_get(db, guild_id, default_ban_under_seconds,
                default_kick_under_seconds).ret

\* both second-granularity columns of the guild's row are set
HasSeconds(db, guild_id) ==
  /\ db[guild_id] # None
  /\ Get(db[guild_id]).ban_under_seconds # None
  /\ Get(db[guild_id]).kick_under_seconds # None

\* the default thresholds a start of the process can configure
BanDefaults == {_int_env(e, 7) * 86400 : e \in BanDaysEnv}

KickDefaults == {_int_env(e, 30) * 86400 : e \in KickDaysEnv}

----------------------------------------------------------------------------
(* C11: showday for a guild without a row inserts a row holding the         *)
(* defaults of the running process and replies with them; for a guild whose *)
(* row holds both second thresholds it replies with exactly these and       *)
(* leaves the table as it is, whatever the defaults of the running process. *)
(* Only banday and kickday change such a row (a restart does not), and no   *)
(* row is ever deleted.                                                     *)

C11_Read ==
  \A h \in HandlerSlots :
    Invoked(h, "showday") =>
      LET g == handlers'[h].guild
          ret == handlers'[h].reply.args
      IN /\ settings[g] = None =>
              /\ ret = <<default_ban_under_seconds,
                         default_kick_under_seconds>>
              /\ HasSeconds(settings', g)
              /\ Get(settings'[g]).ban_under_seconds =
                   Some(default_ban_under_seconds)
              /\ Get(settings'[g]).kick_under_seconds =
                   Some(default_kick_under_seconds)
              /\ \A g2 \in Guilds \ {g} : settings'[g2] = settings[g2]
         /\ HasSeconds(settings, g) =>
              /\ ret = <<Get(Get(settings[g]).ban_under_seconds),
                         Get(Get(settings[g]).kick_under_seconds)>>
              /\ settings' = settings

C11_Kept ==
  \A g \in Guilds :
    /\ settings[g] # None => settings'[g] # None
    /\ (HasSeconds(settings, g) /\ settings'[g] # settings[g]) =>
         \E h \in HandlerSlots :
           /\ Invoked(h, "banday") \/ Invoked(h, "kickday")
           /\ handlers'[h].guild = g

\* C11: a read of a guild without a row materialises the defaults, later
\* reads return the stored pair and change nothing, and rows are never
\* deleted
C11_DefaultMaterialised == [][C11_Read /\ C11_Kept]_vars

\* showday replies with the defaults of an earlier start (7 d, 30 d) in a
\* process started with BAN_UNDER_DAYS=1, no banday or kickday having run
C11_Witness ==
  \E h \in HandlerSlots :
    /\ handlers[h].pc = "ctx_send"
    /\ handlers[h].cmd = "showday"
    /\ handlers[h].reply.args = <<604800, 2592000>>
    /\ default_ban_under_seconds = 86400
    /\ history.ban_set[handlers[h].guild] = None
    /\ history.kick_set[handlers[h].guild] = None

----------------------------------------------------------------------------
(* C12: banday that goes through makes the guild's policy (s, k), k being   *)
(* the kick threshold a read just before would have returned (the default   *)
(* for a guild without a row), and kickday symmetrically keeps the ban      *)
(* threshold; the rows of the other guilds, the whitelist and the log       *)
(* channel (attribute and file) are left alone.                             *)

C12_Frame(g) ==
  /\ \A g2 \in Guilds \ {g} : settings'[g2] = settings[g2]
  /\ whitelist' = whitelist
  /\ log_channel_id' = log_channel_id
  /\ config_file' = config_file

C12_Step ==
  \A h \in HandlerSlots :
    LET g == handlers'[h].guild
        reply == handlers'[h].reply
    IN /\ (Invoked(h, "banday") /\ reply.title = "Ban Time Set") =>
            /\ GetPolicy(settings', g) =
                 <<reply.args[1], GetPolicy(settings, g)[2]>>
            /\ C12_Frame(g)
       /\ (Invoked(h, "kickday") /\ reply.title = "Kick Time Set") =>
            /\ GetPolicy(settings', g) =
                 <<GetPolicy(settings, g)[1], reply.args[1]>>
            /\ C12_Frame(g)

\* C12: setting one threshold keeps the other threshold of the guild and
\* changes nothing else
C12_SetKeepsOther == [][C12_Step]_vars

\* banday 1w has gone through for a guild whose kick threshold is the 15 d
\* of its day-granularity row
C12_Witness ==
  \E h \in HandlerSlots :
    /\ handlers[h].pc = "ctx_send"
    /\ handlers[h].reply = Reply("Ban Time Set", "", <<604800>>)
    /\ GetPolicy(settings, handlers[h].guild) = <<604800, 1296000>>

----------------------------------------------------------------------------
(* C13: showday for a guild whose row holds day thresholds and no second    *)
(* thresholds replies with (days * 86400, days * 86400) and stores these    *)
(* seconds in the row, leaving its day columns; a read of the row after     *)
(* that returns the same pair and writes nothing, whatever the defaults of  *)
(* the process.                                                             *)

IsLegacy(db, guild_id) ==
  /\ db[guild_id] # None
  /\ Get(db[guild_id]).ban_under_seconds = None
  /\ Get(db[guild_id]).kick_under_seconds = None
  /\ Get(db[guild_id]).ban_under_days # None
  /\ Get(db[guild_id]).kick_under_days # None

C13_Step ==
  \A h \in HandlerSlots :
    LET g == handlers'[h].guild IN
    (Invoked(h, "showday") /\ IsLegacy(settings, g)) =>
      LET old == Get(settings[g])
          pair == <<Get(old.ban_under_days) * 86400,
                    Get(old.kick_under_days) * 86400>>
      IN /\ handlers'[h].reply.args = pair
         /\ settings'[g] = Some(Row(Some(pair[1]), Some(pair[2]),
                                    old.ban_under_days, old.kick_under_days))
         /\ \A d1 \in BanDefaults, d2 \in KickDefaults :
              _settings_get(settings', g, d1, d2) =
                [ret |-> pair, db |-> settings']

\* C13: the first read of a day-granularity row converts and stores the
\* seconds, and later reads return them unchanged
C13_LegacyUpgrade == [][C13_Step]_vars

\* two showday handlers of one guild are in flight, the first having
\* upgraded the row (3 d, 15 d), and both reply with the same seconds
C13_Witness ==
  /\ \A h \in HandlerSlots :
       /\ handlers[h].pc = "ctx_send"
       /\ handlers[h].cmd = "showday"
       /\ handlers[h].guild = 1
       /\ handlers[h].reply.args = <<259200, 1296000>>
  /\ settings[1] = Some(Row(Some(259200), Some(1296000), Some(3), Some(15)))

----------------------------------------------------------------------------
(* C14: in every reachable state the second thresholds stored for a guild   *)
(* are both >= 0, whether they come from the defaults of the environment,   *)
(* from the upgrade of a day-granularity row, from banday or from kickday.  *)

\* C14: every stored threshold is non-negative
C14_ThresholdsNonNegative ==
  \A g \in Guilds :
    settings[g] # None =>
      /\ Get(settings[g]).ban_under_seconds # None
           => Get(Get(settings[g]).ban_under_seconds) >= 0
      /\ Get(settings[g]).kick_under_seconds # None
           => Get(Get(settings[g]).kick_under_seconds) >= 0

----------------------------------------------------------------------------
(* C15: banday or kickday given a duration that does not parse replies      *)
(* "Invalid Value" and leaves the settings table exactly as it was (no row  *)
(* changed, none created), as well as the whitelist and the log channel.    *)

C15_Frame ==
  /\ settings' = settings
  /\ whitelist' = whitelist
  /\ log_channel_id' = log_channel_id
  /\ config_file' = config_file

C15_Step ==
  \A h \in HandlerSlots :
    (Invoked(h, "banday") \/ Invoked(h, "kickday")) =>
      LET g == handlers'[h].guild
          w == IF handlers'[h].cmd = "banday" THEN "ban" ELSE "kick"
      IN /\ handlers'[h].reply.title = "Invalid Value" => C15_Frame
         /\ handlers'[h].reply.title # "Invalid Value" =>
              \A d \in Durations, f \in {"none", "get", "set"} :
                ~(_parse_duration(d) = None /\ InvokeThreshold(h, g, w, d, f))

\* C15: a duration that does not parse changes nothing
C15_InvalidDurationRejected == [][C15_Step]_vars

\* banday -5d was answered "Invalid Value" and the guild still has no row
C15_Witness ==
  \E h \in HandlerSlots :
    /\ handlers[h].pc = "ctx_send"
    /\ handlers[h].cmd = "banday"
    /\ handlers[h].reply.title = "Invalid Value"
    /\ settings[handlers[h].guild] = None

----------------------------------------------------------------------------
(* C16: the handlers of banday and kickday suspend only at their closing    *)
(* ctx.send, so whichever way two of them interleave, once a banday b and a *)
(* kickday k of one guild have gone through the guild's policy is (b, k),   *)
(* b and k being the last ones that went through.                           *)

\* C16: a banday and a kickday of one guild never undo each other
C16_NoLostUpdate ==
  \A g \in Guilds :
    (history.ban_set[g] # None /\ history.kick_set[g] # None) =>
      GetPolicy(settings, g) =
        <<Get(history.ban_set[g]), Get(history.kick_set[g])>>

\* kickday 1w and then banday 30 of guild 1 are both suspended at their
\* ctx.send, and the policy of guild 1 is (30 d, 1 w)
C16_Witness ==
  /\ handlers[1].pc = "ctx_send" /\ handlers[1].cmd = "kickday"
  /\ handlers[2].pc = "ctx_send" /\ handlers[2].cmd = "banday"
  /\ handlers[1].guild = 1 /\ handlers[2].guild = 1
  /\ handlers[1].reply.args = <<604800>>
  /\ handlers[2].reply.args = <<2592000>>
  /\ GetPolicy(settings, 1) = <<2592000, 604800>>

----------------------------------------------------------------------------
(* C17: the list of the whitelist is strictly ascending (so without         *)
(* duplicates), holds exactly the users whose last whitelist command that   *)
(* went through was an add, and _whitelist_has is true exactly for its      *)
(* members; an add of a user already listed leaves the list as it was.      *)

C17_List ==
  LET ids == _whitelist_all(whitelist) IN
  /\ \A i \in 1..(Len(ids) - 1) : ids[i] < ids[i + 1]
  /\ {ids[i] : i \in DOMAIN ids} = {u \in Users : history.exempt[u] = "add"}
  /\ \A u \in Users :
       _whitelist_has(whitelist, u) <=> \E i \in DOMAIN ids : ids[i] = u

C17_Step ==
  \A h \in HandlerSlots :
    /\ (Invoked(h, "whitelist add") /\ handlers'[h].reply.args[1] \in whitelist)
         => _whitelist_all(whitelist') = _whitelist_all(whitelist)
    /\ Invoked(h, "whitelist list") =>
         \/ handlers'[h].reply.text = "empty" /\ whitelist = {}
         \/ /\ handlers'[h].reply.title = "Whitelist IDs"
            /\ Len(handlers'[h].reply.args) = Cardinality(whitelist)
            /\ \A i \in 1..(Len(handlers'[h].reply.args) - 1) :
                 handlers'[h].reply.args[i] < handlers'[h].reply.args[i + 1]
            /\ \A i \in DOMAIN handlers'[h].reply.args :
                 handlers'[h].reply.args[i] \in whitelist

\* C17: the list is ascending, holds the users last added, agrees with
\* _whitelist_has, and a repeated add does not change it
C17_ListCanonical == []C17_List /\ [][C17_Step]_vars

\* user 2 was listed at the start, user 1 was added, and whitelist list is
\* answering 1, 2
C17_Witness ==
  \E h \in HandlerSlots :
    /\ handlers[h].pc = "ctx_send"
    /\ handlers[h].cmd = "whitelist list"
    /\ handlers[h].reply.args = <<1, 2>>

----------------------------------------------------------------------------
(* C18: whitelist remove of a user replies "Removed" exactly when the user  *)
(* was listed before, and "not in the whitelist" (no exception) when not;   *)
(* afterwards the user is not listed, every other user is listed as before, *)
(* and the removal of a user not listed leaves the list as it was.          *)

C18_Step ==
  \A h \in HandlerSlots, u \in Users :
    Invoke_whitelist_remove(h, u, TRUE) =>
      /\ handlers'[h].pc = "ctx_send"
      /\ handlers'[h].reply.text = "Removed" <=> u \in whitelist
      /\ handlers'[h].reply.text = "not in the whitelist" <=> u \notin whitelist
      /\ u \notin whitelist'
      /\ \A v \in Users \ {u} : v \in whitelist' <=> v \in whitelist
      /\ u \notin whitelist
           => _whitelist_all(whitelist') = _whitelist_all(whitelist)

\* C18: remove reports whether the user was listed, and removes only that
\* user
C18_RemoveReportsPresence == [][C18_Step]_vars

\* user 2 was removed, and a second removal of user 2 is answered "not in
\* the whitelist"
C18_Witness ==
  /\ handlers[1].pc = "ctx_send"
  /\ handlers[1].reply = Reply("Whitelist Updated", "Removed", <<2>>)
  /\ handlers[2].pc = "ctx_send"
  /\ handlers[2].cmd = "whitelist remove"
  /\ handlers[2].reply.text = "not in the whitelist"
  /\ history.exempt[1] = ""

----------------------------------------------------------------------------
(* C19: after any setlog commands and restarts the log channel of the       *)
(* process is the channel of the last setlog, and the channel of            *)
(* LOG_CHANNEL_ID is the log channel only if no setlog has ever written the *)
(* file.  (log_channel_id is one attribute: never two targets at a time.)   *)

\* the channels LOG_CHANNEL_ID can name
EnvChannels == {e.val : e \in {x \in LogChannelEnv : x.kind = "int"}}

\* C19: the channel of the last setlog is the log channel, the one of the
\* environment only when no setlog was ever persisted
C19_MostRecentSetWins ==
  /\ history.target_set # None => log_channel_id = history.target_set
  /\ (log_channel_id # None /\ Get(log_channel_id) \in EnvChannels)
       => ~history.persisted

----------------------------------------------------------------------------
(* C20: no step of on_member_join changes the whitelist, the log channel    *)
(* (attribute or file) or the pair _settings_get returns for any guild; the *)
(* only write is the one _settings_get makes for the guild of the event at  *)
(* arrival.                                                                 *)

\* this step is taken by the on_member_join coroutine
JoinStep == join' # join /\ commands' = commands

C20_Step ==
  JoinStep =>
    /\ whitelist' = whitelist
    /\ log_channel_id' = log_channel_id
    /\ config_file' = config_file
    /\ \A g \in Guilds : GetPolicy(settings', g) = GetPolicy(settings, g)
    /\ settings' # settings =>
         /\ Arrival
         /\ \A g \in Guilds \ {join'.guild} : settings'[g] = settings[g]
         /\ ~HasSeconds(settings, join'.guild)

\* C20: handling a join changes neither the whitelist, nor the log channel,
\* nor the policy of any guild
C20_JoinOnlyReads == [][C20_Step]_vars

\* a join has materialised the default row of its guild, the member was
\* banned, and the handler has ended
C20_Witness ==
  /\ join.pc = "done"
  /\ \E i \in CallsOf({"member.ban"}) : join.trace[i].res = "ok"
  /\ settings[join.guild] =
       Some(Row(Some(604800), Some(2592000), Some(7), Some(30)))
  /\ join.policy = Some(<<604800, 2592000>>)

----------------------------------------------------------------------------
(* The duration codec *)

\* the text after trimming and lower-casing
Trimmed(raw) == Lower(Strip(raw))

\* the unit letter that ends the text, if one does
UnitLetter(value) ==
  IF value # <<>> /\ value[Len(value)] \in {"s", "m", "h", "d", "w"}
  THEN Some(value[Len(value)]) ELSE None

\* the text before the unit letter
NumericPart(value) ==
  SubSeq(value, 1, Len(value) - Len(UnitLetter(value)))

\* seconds of one unit; days when the text has no unit letter
SecondsPerUnit(unit) ==
  CASE unit = Some("s") -> 1 [] unit = Some("m") -> 60
    [] unit = Some("h") -> 3600 [] unit = Some("w") -> 604800
    [] OTHER -> 86400

\* C21: a text that after trimming and lower-casing is a string of digits
\* n, optionally followed by one unit letter, parses to n times the seconds
\* of the unit (days without a unit letter), which is not negative; every
\* other text parses to None (InvalidDuration)
C21_ParseGrammar ==
  codec.op = "_parse_duration" =>
    LET value == Trimmed(codec.raw)
        number == NumericPart(value)
    IN IF number # <<>> /\ \A i \in 1..Len(number) : number[i] \in DigitChars
       THEN /\ codec.parsed = Some(IntOf(number) * SecondsPerUnit(UnitLetter(value)))
            /\ Get(codec.parsed) >= 0
       ELSE codec.parsed = None

\* the terms of a text: what stands between its blanks
RECURSIVE SplitTerms(_)
SplitTerms(text) ==
  IF \E k \in 1..Len(text) : text[k] = " "
  THEN LET k == CHOOSE k \in 1..Len(text) :
                  text[k] = " " /\ \A j \in 1..(k - 1) : text[j] # " "
       IN <<SubSeq(text, 1, k - 1)>> \o SplitTerms(SubSeq(text, k + 1, Len(text)))
  ELSE <<text>>

\* a term is a decimal number without a leading zero, then one letter
WellFormedTerm(term) ==
  /\ Len(term) >= 2
  /\ \A i \in 1..(Len(term) - 1) : term[i] \in DigitChars
  /\ term[1] # "0"

\* the number and the letter a term reads as
TermRead(term) ==
  [unit |-> term[Len(term)], count |-> IntOf(SubSeq(term, 1, Len(term) - 1))]

\* the mixed-radix decomposition of a number of seconds, largest unit first
Decomposition(seconds) ==
  << [unit |-> "w", count |-> seconds \div 604800],
     [unit |-> "d", count |-> (seconds % 604800) \div 86400],
     [unit |-> "h", count |-> (seconds % 86400) \div 3600],
     [unit |-> "m", count |-> (seconds % 3600) \div 60],
     [unit |-> "s", count |-> seconds % 60] >>

NonZeroUnits(seconds) ==
  SelectSeq(Decomposition(seconds), LAMBDA t : t.count # 0)

\* C22: _humanize_duration gives "0s" for seconds <= 0; for seconds > 0 it
\* gives one or two terms separated by one blank, which are the two largest
\* units with a non-zero count in the mixed-radix decomposition of the
\* seconds (the only one if there is one), largest first, each with its
\* count of that decomposition
C22_FormatTopTwo ==
  codec.op = "_humanize_duration" =>
    IF codec.seconds <= 0 THEN codec.text = <<"0", "s">>
    ELSE LET terms == SplitTerms(codec.text)
             nonzero == NonZeroUnits(codec.seconds)
             top == SubSeq(nonzero, 1, IF Len(nonzero) >= 2 THEN 2 ELSE Len(nonzero))
         IN /\ Len(terms) \in {1, 2}
            /\ Len(terms) = Len(top)
            /\ \A i \in 1..Len(terms) :
                 WellFormedTerm(terms[i]) /\ TermRead(terms[i]) = top[i]

\* 90061 s, which is 1 d 1 h 1 m 1 s, was formatted as "1d 1h"
C22_Witness ==
  /\ codec.op = "_humanize_duration"
  /\ codec.seconds = 90061
  /\ Len(NonZeroUnits(codec.seconds)) = 4
  /\ codec.text = <<"1", "d", " ", "1", "h">>

----------------------------------------------------------------------------
(* The settings table: rows between the two schemas, thresholds that are    *)
(* no whole number of days                                                  *)

\* the second-granularity thresholds the guild's row holds: None for a
\* column that is NULL
StoredSeconds(db, guild_id) ==
  <<Get(db[guild_id]).ban_under_seconds, Get(db[guild_id]).kick_under_seconds>>

C23_Step ==
  \A h \in HandlerSlots :
    LET g == handlers'[h].guild
        reply == handlers'[h].reply
        stored == StoredSeconds(settings, g)
        after == StoredSeconds(settings', g)
    IN /\ (Invoked(h, "showday") /\ settings[g] # None) =>
            /\ stored[1] # None => (after[1] = stored[1] /\ reply.args[1] = Get(stored[1]))
            /\ stored[2] # None => (after[2] = stored[2] /\ reply.args[2] = Get(stored[2]))
       /\ (Invoked(h, "banday") /\ reply.title = "Ban Time Set"
           /\ settings[g] # None /\ stored[2] # None) => after[2] = stored[2]
       /\ (Invoked(h, "kickday") /\ reply.title = "Kick Time Set"
           /\ settings[g] # None /\ stored[1] # None) => after[1] = stored[1]

\* C23: a read of the policy changes no second-granularity threshold that
\* the row holds: of a row with one of the two set and the other NULL,
\* showday replies with the one that is set and leaves it in the row, and
\* banday and kickday leave the threshold they do not set
C23_ReadKeepsStoredSeconds == [][C23_Step]_vars

\* the guild's row with other values in its day-granularity columns
WithDays(db, guild_id, ban_days, kick_days) ==
  [db EXCEPT ![guild_id] =
     Some([Get(db[guild_id]) EXCEPT !.ban_under_days = Some(ban_days),
                                   !.kick_under_days = Some(kick_days)])]

\* values of a day-granularity column
DayValues == {0, 1, 30}

\* C24: the ban threshold a banday has set, in seconds and whether or not a
\* whole number of days, is the ban threshold every later read of the
\* guild's policy returns, until the next banday, and likewise for kickday;
\* the day-granularity columns of a row whose second-granularity columns
\* are set have no part in what a read returns
C24_SecondsRoundTrip ==
  \A g \in Guilds :
    /\ history.ban_set[g] # None =>
         GetPolicy(settings, g)[1] = Get(history.ban_set[g])
    /\ history.kick_set[g] # None =>
         GetPolicy(settings, g)[2] = Get(history.kick_set[g])
    /\ HasSeconds(settings, g) =>
         \A ban_days \in DayValues, kick_days \in DayValues :
           GetPolicy(WithDays(settings, g, ban_days, kick_days), g) =
             GetPolicy(settings, g)

\* banday 90m has gone through, the row holds 5400 s beside 1 d, and a
\* showday after it is about to reply with a ban threshold of 5400 s
C24_Witness ==
  \E h \in HandlerSlots :
    /\ handlers[h].pc = "ctx_send"
    /\ handlers[h].cmd = "showday"
    /\ handlers[h].reply.args[1] = 5400
    /\ history.ban_set[handlers[h].guild] = Some(5400)
    /\ Get(settings[handlers[h].guild]).ban_under_seconds = Some(5400)
    /\ Get(settings[handlers[h].guild]).ban_under_days = Some(1)

----------------------------------------------------------------------------
(* C25: what on_member_join does to the member is settled by the whitelist  *)
(* and the settings it reads before its first await.  A whitelist command,  *)
(* a banday or a kickday that runs while the handler is suspended at         *)
(* member.send or at member.ban / member.kick changes neither the action     *)
(* nor the call the handler makes when it goes on.                           *)

\* the call that carries out an action
ModerationCall(action) == IF action = "ban" THEN "member.ban" ELSE "member.kick"

\* while the handler is suspended at member.send or at the moderation call,
\* no step but a restart, which ends it, changes its action or the policy
\* it has read; the handler goes on from the moderation call with the call
\* of that action
C25_Step ==
  (join.pc \in {"member_send", "moderate"} /\ join'.pc # "idle") =>
    /\ join'.action = join.action
    /\ join'.policy = join.policy
    /\ (join.pc = "moderate" /\ join' # join) =>
         /\ Len(join'.trace) > Len(join.trace)
         /\ join'.trace[Len(join.trace) + 1].op = ModerationCall(join.action)

\* the action is the one the age and the policy read on arrival give, and a
\* handler that is past its moderation call has made the call of its
\* action, once, and no other moderation call
C25_Calls ==
  join.action \in {"ban", "kick"} =>
    /\ join.action = C1_Choice(join.age, Get(join.policy)[1], Get(join.policy)[2])
    /\ CallsOf(ModerationOps \ {ModerationCall(join.action)}) = {}
    /\ join.pc \notin {"member_send", "moderate"} =>
         Cardinality(CallsOf({ModerationCall(join.action)})) = 1

\* C25: the action of a join in flight is fixed on arrival
C25_ActionFixedOnArrival == [][C25_Step]_vars /\ []C25_Calls

\* the member was banned although a whitelist command that ran while the
\* handler was suspended has put the member on the whitelist
C25_Witness ==
  /\ commands = 1
  /\ ~join.bot
  /\ join.action = "ban"
  /\ \E i \in CallsOf({"member.ban"}) : join.trace[i].res = "ok"
  /\ _whitelist_has(whitelist, join.member)

----------------------------------------------------------------------------
(* C26: the log channel of the process and the one in the configuration     *)
(* file after setlog, and the log channel over a restart                     *)

\* this step is a setlog, up to its ctx.send or to the OSError of the write
C26_SetLog ==
  \E h \in HandlerSlots, channel \in TextChannelIds, save \in SaveResults :
    Invoke_set_log_channel(h, channel, save)

C26_Step ==
  IF C26_SetLog
  THEN log_channel_id' = _load_log_channel_id(config_file')
  ELSE history.target_set # None => log_channel_id' = log_channel_id

\* C26: after every setlog, whether or not the write of the configuration
\* file went through, the log channel of the process is the one the file
\* holds; so once a setlog has run, a restart leaves the log channel as it
\* was
C26_TargetMatchesFile == [][C26_Step]_vars

====
